---- MODULE Spec2Model ----
(***************************************************************************)
(* Connection docking of diagram-js: the identity docking                 *)
(* (lib/layout/ConnectionDocking.js) and the cropping docking             *)
(* (lib/layout/CroppingConnectionDocking.js), over a JavaScript heap of   *)
(* point objects and waypoint arrays; the move behaviour                   *)
(* (lib/features/move/Move.js: MoveEvents) over a heap of move contexts;   *)
(* and the bootstrap of the diagram's modules (bootstrap, in the same      *)
(* file).  Each of the three has its own specification, in which the       *)
(* variables of the other two stay as they are.                            *)
(*                                                                         *)
(* References are positive naturals; 0 is JavaScript's undefined.  A point *)
(* object is a record whose domain is the set of its own properties, so a  *)
(* waypoint without an `original` is [x, y] and one with it is             *)
(* [x, y, original], original being a reference to another point object.  *)
(***************************************************************************)
EXTENDS Integers, Sequences, FiniteSets, TLC

\* ------------------------------------------------------------- bounds

MaxLen == 4      \* longest waypoint sequence of the initial connection
MaxCrops == 1    \* how often a cropped result is written back to the connection

\* the initial waypoints lie on the grid Xs x Ys: the centres of the two shapes,
\* and the points between and below them
Xs == {50, 150, 250}
Ys == {50, 150}

VARIABLES
  heap,        \* [pts, arrs]: the point objects and the waypoint arrays
  connection,  \* the connection object: [waypoints, source, target]
  shapePaths,  \* what graphicsFactory.getShapePath answers for each shape
  cropping,    \* the fields of the CroppingConnectionDocking instance
  call,        \* the docking call that just returned, with its result
  crops,       \* number of cropped results written back so far
  anchors,     \* the logical end points of the initial connection
  selection,   \* what selection.get() answers: the selected elements, in order
  contexts,    \* the move context objects
  drag,        \* the drag that dragging.init started, if one is going on
  handled,     \* the MoveEvents handler or method that just returned, with its result
  boot         \* the run of bootstrap(bootstrapModules)

dockingVars == <<heap, connection, shapePaths, cropping, call, crops, anchors>>
moveVars == <<selection, contexts, drag, handled>>

vars == <<dockingVars, moveVars, boot>>

\* ------------------------------------------------------- JS values

Undefined == "undefined"

Truthy(v) == v = "true"

HasOwn(obj, f) == f \in DOMAIN obj

\* obj.original, undefined (0) when the object has no such property
OriginalOf(obj) == IF HasOwn(obj, "original") THEN obj.original ELSE 0

\* waypoints[idx] of a JS array (0-based), undefined outside of it
At(arr, idx) == IF idx >= 0 /\ idx < Len(arr) THEN arr[idx + 1] ELSE 0

\* Array.prototype.slice(start, end) for start >= 0: a negative end counts from
\* the end of the array
Slice(arr, start, end) ==
  LET n == Len(arr)
      e0 == IF end < 0 THEN n + end ELSE end
      e == IF e0 < 0 THEN 0 ELSE IF e0 > n THEN n ELSE e0
      s == IF start > n THEN n ELSE start
  IN IF s >= e THEN << >> ELSE SubSeq(arr, s + 1, e)

\* min-dash assign(target, source): copies the own properties of source
Assign(target, source) ==
  [f \in DOMAIN target \cup DOMAIN source |->
     IF f \in DOMAIN source THEN source[f] ELSE target[f]]

AllocPoint(h, p) == [h EXCEPT !.pts = Append(@, p)]
AllocArray(h, a) == [h EXCEPT !.arrs = Append(@, a)]

\* ---------------------------------------------- graphics path provider

Shapes == {"s1", "s2"}

NoPath == [kind |-> "none", x1 |-> 0, y1 |-> 0, x2 |-> 0, y2 |-> 0]
RectA == [kind |-> "rect", x1 |-> 0, y1 |-> 0, x2 |-> 100, y2 |-> 100]
RectB == [kind |-> "rect", x1 |-> 200, y1 |-> 0, x2 |-> 300, y2 |-> 100]

\* the outlines a shape can have: s1 is RectA while it is rendered and has no
\* outline while it is not, s2 is always rendered
PathsOf(shape) == IF shape = "s1" THEN {NoPath, RectA} ELSE {RectB}

\* graphicsFactory.getShapePath(shape): the live outline of the shape; no outline
\* for a shape that is not rendered or not given
getShapePath(shape) == IF shape \in Shapes THEN shapePaths[shape] ELSE NoPath

\* graphicsFactory.getConnectionPath(waypoints): the polyline through the waypoints
getConnectionPath(h, waypoints) ==
  [i \in 1..Len(h.arrs[waypoints]) |->
     [x |-> h.pts[h.arrs[waypoints][i]].x, y |-> h.pts[h.arrs[waypoints][i]].y]]

\* ------------------------------------------ path intersection primitive

\* Math.round(n / d) for d > 0
RoundDiv(n, d) == (2 * n + d) \div (2 * d)

\* the crossings of the segment a -> b with the edges x = e of the rectangle r; a
\* crossing is [x, y, n, d], met at the fraction n / d of the segment (d > 0)
VerticalEdgeCrossings(r, a, b) ==
  LET dx == b.x - a.x
      dy == b.y - a.y
      d == IF dx < 0 THEN -dx ELSE dx
      N(e) == IF dx < 0 THEN a.x - e ELSE e - a.x
      Y(e) == a.y * d + N(e) * (IF dx < 0 THEN -dy ELSE dy)
  IN IF dx = 0 THEN {}
     ELSE {[x |-> e, y |-> RoundDiv(Y(e), d), n |-> N(e), d |-> d] :
             e \in {e \in {r.x1, r.x2} :
                      /\ 0 <= N(e) /\ N(e) <= d
                      /\ r.y1 * d <= Y(e) /\ Y(e) <= r.y2 * d}}

\* the crossings of the segment a -> b with the edges y = f of the rectangle r
HorizontalEdgeCrossings(r, a, b) ==
  LET dx == b.x - a.x
      dy == b.y - a.y
      d == IF dy < 0 THEN -dy ELSE dy
      N(f) == IF dy < 0 THEN a.y - f ELSE f - a.y
      X(f) == a.x * d + N(f) * (IF dy < 0 THEN -dx ELSE dx)
  IN IF dy = 0 THEN {}
     ELSE {[x |-> RoundDiv(X(f), d), y |-> f, n |-> N(f), d |-> d] :
             f \in {f \in {r.y1, r.y2} :
                      /\ 0 <= N(f) /\ N(f) <= d
                      /\ r.x1 * d <= X(f) /\ X(f) <= r.x2 * d}}

SegmentCrossings(r, a, b) ==
  VerticalEdgeCrossings(r, a, b) \cup HorizontalEdgeCrossings(r, a, b)

\* all crossings of the connection path with the outline, each annotated with its
\* position along the path: the segment and the fraction of it
Crossings(shapePath, connectionPath) ==
  IF shapePath.kind = "none" THEN {}
  ELSE UNION {{[x |-> c.x, y |-> c.y, segment |-> i, n |-> c.n, d |-> c.d] :
                 c \in SegmentCrossings(shapePath, connectionPath[i], connectionPath[i + 1])} :
              i \in 1..(Len(connectionPath) - 1)}

\* c1 is met no later than c2 going along the path from its start
Before(c1, c2) ==
  \/ c1.segment < c2.segment
  \/ c1.segment = c2.segment /\ c1.n * c2.d <= c2.n * c1.d

Coord(c) == [x |-> c.x, y |-> c.y]

\* the crossing nearest the start of the path
FirstCrossing(cs) == Coord(CHOOSE c \in cs : \A c2 \in cs : Before(c, c2))

\* the crossing nearest the end of the path
LastCrossing(cs) == Coord(CHOOSE c \in cs : \A c2 \in cs : Before(c2, c))

\* getElementLineIntersection(elementPath, linePath, cropStart) of LayoutUtil: a new
\* point object at the chosen crossing, undefined (0) when there is none
getElementLineIntersection(h, shapePath, connectionPath, takeFirst) ==
  LET cs == Crossings(shapePath, connectionPath)
  IN IF cs = {} THEN [heap |-> h, ret |-> 0]
     ELSE [heap |-> AllocPoint(h, IF Truthy(takeFirst) THEN FirstCrossing(cs)
                                                      ELSE LastCrossing(cs)),
           ret |-> Len(h.pts) + 1]

\* ------------------------------------------------- ConnectionDocking

\* connectionOrWaypoints as passed by a caller: the connection object, or a bare
\* waypoint array (ref); a property an array does not have reads as undefined
ConnectionArg == [type |-> "connection", ref |-> 0,
                  waypoints |-> connection.waypoints,
                  source |-> connection.source, target |-> connection.target]

ArrayArg(arr) == [type |-> "array", ref |-> arr,
                  waypoints |-> 0, source |-> Undefined, target |-> Undefined]

\* a || b on references, and on shapes
OrRef(a, b) == IF a # 0 THEN a ELSE b
\* source || connectionOrWaypoints.source with the operands swapped: the connection's
\* end wins over the one passed
OrShape_connectionFirst(a, b) == IF b # Undefined THEN b ELSE a

OrShape(a, b) == IF a # Undefined THEN a ELSE b

\* the identity docking that never reads connectionOrWaypoints.waypoints
ConnectionDocking_getCroppedWaypoints_argOnly(h, connectionOrWaypoints, source, target) ==
  [heap |-> h, threw |-> FALSE, ret |-> connectionOrWaypoints.ref]

ConnectionDocking_getCroppedWaypoints(h, connectionOrWaypoints, source, target) ==
  [heap |-> h,
   threw |-> FALSE,
   ret |-> OrRef(connectionOrWaypoints.waypoints, connectionOrWaypoints.ref)]

ConnectionDocking_getDockingPoint(h, waypoints, shape, dockStart) ==
  LET dockingIdx == IF Truthy(dockStart) THEN 0 ELSE Len(h.arrs[waypoints]) - 1
      dockingPoint == At(h.arrs[waypoints], dockingIdx)
  IN [heap |-> h,
      threw |-> FALSE,
      ret |-> [point |-> dockingPoint, actual |-> dockingPoint, idx |-> dockingIdx]]

\* ----------------------------------------- CroppingConnectionDocking

\* new CroppingConnectionDocking(elementRegistry, graphicsFactory)
CroppingConnectionDocking(elementRegistry, graphicsFactory) ==
  [elementRegistry |-> elementRegistry, graphicsFactory |-> graphicsFactory]

\* dockingToPoint that returns the raw docking point in place of the actual one
dockingToPoint_rawPoint(h, docking) ==
  IF docking.point = 0
  THEN [heap |-> h, threw |-> TRUE, ret |-> 0]
  ELSE LET original == OrRef(OriginalOf(h.pts[docking.point]), docking.point)
       IN [heap |-> AllocPoint(h, Assign([original |-> original], h.pts[docking.point])),
           threw |-> FALSE,
           ret |-> Len(h.pts) + 1]

\* dockingToPoint that anchors the result at the docking point itself, also when that
\* point carries an original
dockingToPoint_forgetsOriginal(h, docking) ==
  IF docking.point = 0
  THEN [heap |-> h, threw |-> TRUE, ret |-> 0]
  ELSE [heap |-> AllocPoint(h, [x |-> h.pts[docking.actual].x,
                                y |-> h.pts[docking.actual].y,
                                original |-> docking.point]),
        threw |-> FALSE,
        ret |-> Len(h.pts) + 1]

\* dockingToPoint with the arguments of assign swapped: assign(docking.actual,
\* { original: ... }) writes into the actual point and returns it
dockingToPoint_assignsInPlace(h, docking) ==
  IF docking.point = 0
  THEN [heap |-> h, threw |-> TRUE, ret |-> 0]
  ELSE LET original == OrRef(OriginalOf(h.pts[docking.point]), docking.point)
       IN [heap |-> [h EXCEPT !.pts[docking.actual] =
                                 Assign(h.pts[docking.actual], [original |-> original])],
           threw |-> FALSE,
           ret |-> docking.actual]

\* dockingToPoint(docking): reading docking.point.original of an undefined point
\* is a TypeError
dockingToPoint(h, docking) ==
  IF docking.point = 0
  THEN [heap |-> h, threw |-> TRUE, ret |-> 0]
  ELSE LET original == OrRef(OriginalOf(h.pts[docking.point]), docking.point)
       IN [heap |-> AllocPoint(h, Assign([original |-> original], h.pts[docking.actual])),
           threw |-> FALSE,
           ret |-> Len(h.pts) + 1]

\* this._graphicsFactory.getShapePath(shape): calling a method of an undefined
\* graphicsFactory is a TypeError
CroppingConnectionDocking_getShapePath(self, shape) ==
  IF self.graphicsFactory = Undefined
  THEN [threw |-> TRUE, ret |-> NoPath]
  ELSE [threw |-> FALSE, ret |-> getShapePath(shape)]

\* this._graphicsFactory.getConnectionPath(connection)
CroppingConnectionDocking_getConnectionPath(self, h, waypoints) ==
  IF self.graphicsFactory = Undefined
  THEN [threw |-> TRUE, ret |-> << >>]
  ELSE [threw |-> FALSE, ret |-> getConnectionPath(h, waypoints)]

\* the intersection once both paths are there
IntersectPaths(h, shapePath, connectionPath, takeFirst) ==
  IF shapePath.threw \/ connectionPath.threw
  THEN [heap |-> h, threw |-> TRUE, ret |-> 0]
  ELSE [threw |-> FALSE]
         @@ getElementLineIntersection(h, shapePath.ret, connectionPath.ret, takeFirst)

CroppingConnectionDocking_getIntersection(self, h, shape, waypoints, takeFirst) ==
  IntersectPaths(h, CroppingConnectionDocking_getShapePath(self, shape),
                 CroppingConnectionDocking_getConnectionPath(self, h, waypoints), takeFirst)

\* getDockingPoint that raises an error when the path does not cross the outline
CroppingConnectionDocking_getDockingPoint_throws(self, h, waypoints, shape, dockStart) ==
  LET dockingIdx == IF Truthy(dockStart) THEN 0 ELSE Len(h.arrs[waypoints]) - 1
      dockingPoint == At(h.arrs[waypoints], dockingIdx)
      croppedPoint ==
        CroppingConnectionDocking_getIntersection(self, h, shape, waypoints, dockStart)
  IN IF croppedPoint.ret = 0
     THEN [heap |-> h, threw |-> TRUE, ret |-> [point |-> 0, actual |-> 0, idx |-> dockingIdx]]
     ELSE [heap |-> croppedPoint.heap,
           threw |-> FALSE,
           ret |-> [point |-> dockingPoint, actual |-> croppedPoint.ret, idx |-> dockingIdx]]

\* getDockingPoint that docks at the start whatever dockStart says
CroppingConnectionDocking_getDockingPoint_alwaysStart(self, h, waypoints, shape, dockStart) ==
  LET dockingIdx == 0
      dockingPoint == At(h.arrs[waypoints], dockingIdx)
      croppedPoint ==
        CroppingConnectionDocking_getIntersection(self, h, shape, waypoints, dockStart)
  IN [heap |-> croppedPoint.heap,
      threw |-> FALSE,
      ret |-> [point |-> dockingPoint,
               actual |-> OrRef(croppedPoint.ret, dockingPoint),
               idx |-> dockingIdx]]

\* getDockingPoint that takes a waypoint carrying an original for docked already and
\* does not intersect again
CroppingConnectionDocking_getDockingPoint_skipsCropped(self, h, waypoints, shape, dockStart) ==
  LET dockingIdx == IF Truthy(dockStart) THEN 0 ELSE Len(h.arrs[waypoints]) - 1
      dockingPoint == At(h.arrs[waypoints], dockingIdx)
      croppedPoint ==
        CroppingConnectionDocking_getIntersection(self, h, shape, waypoints, dockStart)
  IN IF dockingPoint # 0 /\ HasOwn(h.pts[dockingPoint], "original")
     THEN [heap |-> h,
           threw |-> FALSE,
           ret |-> [point |-> dockingPoint, actual |-> dockingPoint, idx |-> dockingIdx]]
     ELSE [heap |-> croppedPoint.heap,
           threw |-> FALSE,
           ret |-> [point |-> dockingPoint,
                    actual |-> OrRef(croppedPoint.ret, dockingPoint),
                    idx |-> dockingIdx]]

CroppingConnectionDocking_getDockingPoint(self, h, waypoints, shape, dockStart) ==
  LET dockingIdx == IF Truthy(dockStart) THEN 0 ELSE Len(h.arrs[waypoints]) - 1
      dockingPoint == At(h.arrs[waypoints], dockingIdx)
      croppedPoint ==
        CroppingConnectionDocking_getIntersection(self, h, shape, waypoints, dockStart)
  IN [heap |-> croppedPoint.heap,
      threw |-> croppedPoint.threw,
      ret |-> [point |-> dockingPoint,
               actual |-> OrRef(croppedPoint.ret, dockingPoint),
               idx |-> dockingIdx]]

\* the assembly without the final push
Assemble_noPush(h, croppedWaypoints, first, last) ==
  [h EXCEPT !.arrs[croppedWaypoints] = <<first>> \o @]

\* croppedWaypoints.unshift(first); croppedWaypoints.push(last); return
Assemble(h, croppedWaypoints, first, last) ==
  [h EXCEPT !.arrs[croppedWaypoints] = <<first>> \o @ \o <<last>>]

\* the two dockingToPoint calls of getCroppedWaypoints, on the sliced array
CropEnds(h, croppedWaypoints, sourceDocking, targetDocking) ==
  LET first == dockingToPoint(h, sourceDocking)
  IN IF first.threw THEN [heap |-> first.heap, threw |-> TRUE, ret |-> 0]
     ELSE LET last == dockingToPoint(first.heap, targetDocking)
          IN IF last.threw THEN [heap |-> last.heap, threw |-> TRUE, ret |-> 0]
             ELSE [heap |-> Assemble(last.heap, croppedWaypoints, first.ret, last.ret),
                   threw |-> FALSE,
                   ret |-> croppedWaypoints]

\* the slice taken from sourceDocking.idx, not from the waypoint after it
CropSlice_fromDockingIdx(h, waypoints, sourceDocking, targetDocking) ==
  CropEnds(AllocArray(h, Slice(h.arrs[waypoints], sourceDocking.idx, targetDocking.idx)),
           Len(h.arrs) + 1, sourceDocking, targetDocking)

\* the cropping done on the waypoint array itself, with no slice taken
CropSlice_inPlace(h, waypoints, sourceDocking, targetDocking) ==
  CropEnds([h EXCEPT !.arrs[waypoints] = Slice(@, sourceDocking.idx + 1, targetDocking.idx)],
           waypoints, sourceDocking, targetDocking)

\* var croppedWaypoints = waypoints.slice(sourceDocking.idx + 1, targetDocking.idx)
CropSlice(h, waypoints, sourceDocking, targetDocking) ==
  CropEnds(AllocArray(h, Slice(h.arrs[waypoints], sourceDocking.idx + 1, targetDocking.idx)),
           Len(h.arrs) + 1, sourceDocking, targetDocking)

\* the target docked with dockStart = true, like the source
CropTarget_dockStart(self, waypoints, target, sourceDocking) ==
  LET targetDocking ==
        CroppingConnectionDocking_getDockingPoint(self, sourceDocking.heap, waypoints, target, "true")
  IN CropSlice(targetDocking.heap, waypoints, sourceDocking.ret, targetDocking.ret)

CropTarget(self, waypoints, target, sourceDocking) ==
  LET targetDocking ==
        CroppingConnectionDocking_getDockingPoint(self, sourceDocking.heap, waypoints, target, Undefined)
  IN IF sourceDocking.threw \/ targetDocking.threw
     THEN [heap |-> sourceDocking.heap, threw |-> TRUE, ret |-> 0]
     ELSE CropSlice(targetDocking.heap, waypoints, sourceDocking.ret, targetDocking.ret)

CroppingConnectionDocking_getCroppedWaypoints(self, h, connectionOrWaypoints, source, target) ==
  LET waypoints == OrRef(connectionOrWaypoints.waypoints, connectionOrWaypoints.ref)
  IN CropTarget(self, waypoints, OrShape(target, connectionOrWaypoints.target),
                CroppingConnectionDocking_getDockingPoint(
                  self, h, waypoints, OrShape(source, connectionOrWaypoints.source), "true"))

\* ------------------------------------------------------ the callers

EmptyHeap == [pts |-> << >>, arrs |-> << >>]

NoDocking == [point |-> 0, actual |-> 0, idx |-> 0]

NoCall == [op |-> "none", impl |-> "none", arg |-> ArrayArg(0),
           source |-> Undefined, target |-> Undefined,
           waypoints |-> 0, shape |-> Undefined, dockStart |-> Undefined,
           pre |-> EmptyHeap, post |-> EmptyHeap,
           threw |-> FALSE, ret |-> 0, docking |-> NoDocking]

\* the objects that existed before a call, as the call left them
Kept(post, pre) == [pts |-> SubSeq(post.pts, 1, Len(pre.pts)),
                    arrs |-> SubSeq(post.arrs, 1, Len(pre.arrs))]

Points == {[x |-> px, y |-> py] : px \in Xs, py \in Ys}

\* consecutive waypoints of a route differ in exactly one coordinate
IsSegment(a, b) == (a.x = b.x) # (a.y = b.y)

RECURSIVE RoutesOfLen(_)
RoutesOfLen(n) ==
  IF n = 0 THEN {<< >>}
  ELSE IF n = 1 THEN {<<p>> : p \in Points}
  ELSE UNION {{Append(route, p) : p \in {q \in Points : IsSegment(route[n - 1], q)}} :
              route \in RoutesOfLen(n - 1)}

Routes == UNION {RoutesOfLen(n) : n \in 0..MaxLen}

\* the (connectionOrWaypoints, source, target) argument lists callers use:
\* <<by connection?, source, target>>
CropArgs == {<<TRUE, Undefined, Undefined>>, <<TRUE, "s2", "s1">>, <<TRUE, "s1", "s1">>,
             <<FALSE, "s1", "s2">>, <<FALSE, "s2", "s1">>, <<FALSE, "s1", "s1">>}

DockStarts == {"true", "false", Undefined}

\* no drag going on, no handler run yet
NoDrag == [active |-> FALSE, context |-> 0, shape |-> Undefined, moves |-> 0]

NoHandled == [op |-> "none"]

MoveAtRest ==
  /\ selection = << >>
  /\ contexts = << >>
  /\ drag = NoDrag
  /\ handled = NoHandled

\* bootstrap not called
NoBoot == [phase |-> "idle"]

BootAtRest == boot = NoBoot

\* the docking as constructed with the given graphicsFactory, and a connection to lay out
InitWith(graphicsFactory) ==
  /\ \E route \in Routes :
       heap = [pts |-> route, arrs |-> <<[i \in 1..Len(route) |-> i]>>]
  /\ connection = [waypoints |-> 1, source |-> "s1", target |-> "s2"]
  /\ shapePaths \in {f \in [Shapes -> {NoPath, RectA, RectB}] :
                       \A s \in Shapes : f[s] \in PathsOf(s)}
  /\ cropping = CroppingConnectionDocking("elementRegistry", graphicsFactory)
  /\ call = NoCall
  /\ crops = 0
  /\ anchors = [first |-> At(heap.arrs[1], 0), last |-> At(heap.arrs[1], Len(heap.arrs[1]) - 1)]
  /\ MoveAtRest
  /\ BootAtRest

\* the docking as the injector constructs it: CroppingConnectionDocking.$inject
Init == InitWith("graphicsFactory")

\* cropping.getCroppedWaypoints(connection | connection.waypoints, source, target)
CropCall(byConnection, source, target) ==
  LET arg == IF byConnection THEN ConnectionArg ELSE ArrayArg(connection.waypoints)
  IN /\ call = NoCall
     /\ \E out \in {CroppingConnectionDocking_getCroppedWaypoints(
                       cropping, heap, arg, source, target)} :
          /\ call' = [NoCall EXCEPT !.op = "getCroppedWaypoints", !.impl = "cropping",
                                    !.arg = arg, !.source = source, !.target = target,
                                    !.pre = heap, !.post = out.heap,
                                    !.threw = out.threw, !.ret = out.ret]
          /\ heap' = Kept(out.heap, heap)
     /\ UNCHANGED <<connection, shapePaths, cropping, crops, anchors, moveVars, boot>>

\* cropping.getDockingPoint(connection.waypoints, shape, dockStart)
DockCall(shape, dockStart) ==
  /\ call = NoCall
  /\ \E out \in {CroppingConnectionDocking_getDockingPoint(
                    cropping, heap, connection.waypoints, shape, dockStart)} :
       /\ call' = [NoCall EXCEPT !.op = "getDockingPoint", !.impl = "cropping",
                                 !.waypoints = connection.waypoints,
                                 !.shape = shape, !.dockStart = dockStart,
                                 !.pre = heap, !.post = out.heap,
                                 !.threw = out.threw, !.docking = out.ret]
       /\ heap' = Kept(out.heap, heap)
  /\ UNCHANGED <<connection, shapePaths, cropping, crops, anchors, moveVars, boot>>

\* identity.getCroppedWaypoints(connection | connection.waypoints, source, target)
IdentityCropCall(byConnection, source, target) ==
  LET arg == IF byConnection THEN ConnectionArg ELSE ArrayArg(connection.waypoints)
      out == ConnectionDocking_getCroppedWaypoints(heap, arg, source, target)
  IN /\ call = NoCall
     /\ call' = [NoCall EXCEPT !.op = "getCroppedWaypoints", !.impl = "identity",
                               !.arg = arg, !.source = source, !.target = target,
                               !.pre = heap, !.post = out.heap,
                               !.threw = out.threw, !.ret = out.ret]
     /\ heap' = Kept(out.heap, heap)
     /\ UNCHANGED <<connection, shapePaths, cropping, crops, anchors, moveVars, boot>>

\* identity.getDockingPoint(connection.waypoints, shape, dockStart)
IdentityDockCall(shape, dockStart) ==
  LET out == ConnectionDocking_getDockingPoint(heap, connection.waypoints, shape, dockStart)
  IN /\ call = NoCall
     /\ call' = [NoCall EXCEPT !.op = "getDockingPoint", !.impl = "identity",
                               !.waypoints = connection.waypoints,
                               !.shape = shape, !.dockStart = dockStart,
                               !.pre = heap, !.post = out.heap,
                               !.threw = out.threw, !.docking = out.ret]
     /\ heap' = Kept(out.heap, heap)
     /\ UNCHANGED <<connection, shapePaths, cropping, crops, anchors, moveVars, boot>>

\* the layout pass: connection.waypoints = cropping.getCroppedWaypoints(connection)
Relayout ==
  /\ call.op = "getCroppedWaypoints" /\ call.impl = "cropping" /\ ~call.threw
  /\ call.arg.type = "connection" /\ call.source = Undefined /\ call.target = Undefined
  /\ crops < MaxCrops
  /\ heap' = call.post
  /\ connection' = [connection EXCEPT !.waypoints = call.ret]
  /\ crops' = crops + 1
  /\ call' = NoCall
  /\ UNCHANGED <<shapePaths, cropping, anchors, moveVars, boot>>

\* the caller changes the sequence it got from getCroppedWaypoints: it drops the last
\* element and moves the first point to the origin
ModifyResult ==
  /\ call.op = "getCroppedWaypoints" /\ call.impl = "cropping" /\ ~call.threw
  /\ Len(call.post.arrs[call.ret]) >= 1
  /\ call' = [call EXCEPT
                !.op = "resultModified",
                !.post = [pts |-> [call.post.pts EXCEPT
                                     ![call.post.arrs[call.ret][1]] =
                                        Assign(@, [x |-> 0, y |-> 0])],
                          arrs |-> [call.post.arrs EXCEPT
                                      ![call.ret] = SubSeq(@, 1, Len(@) - 1)]]]
  /\ heap' = Kept(call'.post, heap)
  /\ UNCHANGED <<connection, shapePaths, cropping, crops, anchors, moveVars, boot>>

\* the caller is done with the result of the call
Return ==
  /\ call # NoCall
  /\ call' = NoCall
  /\ UNCHANGED <<heap, connection, shapePaths, cropping, crops, anchors, moveVars, boot>>

\* a shape is rendered, resized away or removed from the canvas: its outline changes
Resize(shape, path) ==
  /\ call = NoCall
  /\ path # shapePaths[shape]
  /\ shapePaths' = [shapePaths EXCEPT ![shape] = path]
  /\ UNCHANGED <<heap, connection, cropping, call, crops, anchors, moveVars, boot>>

Next ==
  \/ \E a \in CropArgs : CropCall(a[1], a[2], a[3])
  \/ \E shape \in Shapes, dockStart \in DockStarts : DockCall(shape, dockStart)
  \/ \E a \in CropArgs : IdentityCropCall(a[1], a[2], a[3])
  \/ \E shape \in Shapes, dockStart \in DockStarts : IdentityDockCall(shape, dockStart)
  \/ Relayout
  \/ ModifyResult
  \/ Return
  \/ \E shape \in Shapes : \E path \in PathsOf(shape) : Resize(shape, path)

Spec == Init /\ [][Next]_vars

\* the docking constructed by hand, with or without a graphicsFactory
GraphicsFactories == {"graphicsFactory", Undefined}

InitAnyFactory == \E graphicsFactory \in GraphicsFactories : InitWith(graphicsFactory)

SpecAnyFactory == InitAnyFactory /\ [][Next]_vars

\* ------------------------------------------------------------ MoveEvents

MaxSelected == 2   \* most elements selected at once
MaxMoves == 2      \* the move events of a drag are counted up to this number

Null == "null"

\* !value for what rules.allowed answers
Falsy(v) == v \in {"false", Null, Undefined}

\* coordinates, sizes and deltas are counted in half pixels: n stands for n / 2.
\* Math.round: the nearest whole pixel, a half rounding up
round(n) == ((n + 1) \div 2) * 2

\* the elements on the canvas: b is a child of a and c a child of b; a and d are
\* children of the root, which has no parent
Elements == {"a", "b", "c", "d"}
Root == "root"

parentOf(element) ==
  CASE element = "b" -> "a"
    [] element = "c" -> "b"
    [] element \in {"a", "d"} -> Root
    [] OTHER -> Undefined

\* x, y, width and height of an element: 5 by 4 pixels at (10, 20)
boxOf(element) == [x |-> 20, y |-> 40, width |-> 10, height |-> 8]

mid(element) ==
  [x |-> boxOf(element).x + round(boxOf(element).width \div 2),
   y |-> boxOf(element).y + round(boxOf(element).height \div 2)]

\* while ((element = element.parent)) { if (ids[element.id]) return false; } return true
RECURSIVE NotNested(_, _)
NotNested(element, ids) ==
  IF parentOf(element) = Undefined THEN TRUE
  ELSE IF parentOf(element) \in ids THEN FALSE
  ELSE NotNested(parentOf(element), ids)

\* removeNested that looks at the parent of an element only
removeNested_parentOnly(elements) ==
  SelectSeq(elements,
            LAMBDA element : parentOf(element) \notin {elements[i] : i \in 1..Len(elements)})

removeNested(elements) ==
  SelectSeq(elements,
            LAMBDA element : NotNested(element, {elements[i] : i \in 1..Len(elements)}))

\* MoveEvents.prototype.getValidatedShapes(shape), with the selection it read
MoveEvents_getValidatedShapes(selected, shape) ==
  [selection |-> selected,
   ret |-> removeNested(IF \E i \in 1..Len(selected) : selected[i] = shape
                        THEN selected ELSE <<shape>>)]

\* MoveEvents.prototype.canMove: the question put to rules.allowed('elements.move', ...)
\* and its answer
MoveEvents_canMove(answer, shapes, delta, position, target) ==
  [query |-> [shapes |-> shapes, delta |-> delta, position |-> position, target |-> target],
   ret |-> answer]

\* {}: an object without properties
EmptyObject == [f \in {} |-> Undefined]

\* initContext that always sets up an object of its own
initContext_ownObject(h, context, canExecute, shapes, element) ==
  [contexts |-> Append(h, [canExecute |-> canExecute, shapes |-> shapes,
                           validatedShapes |-> shapes, shape |-> element]),
   ret |-> Len(h) + 1]

\* MoveEvents.prototype.initContext(context, canExecute, shapes, element)
initContext(h, context, canExecute, shapes, element) ==
  [contexts |-> [(IF context # 0 THEN h ELSE Append(h, EmptyObject)) EXCEPT
                   ![IF context # 0 THEN context ELSE Len(h) + 1] =
                      Assign(@, [canExecute |-> canExecute, shapes |-> shapes,
                                 validatedShapes |-> shapes, shape |-> element])],
   ret |-> IF context # 0 THEN context ELSE Len(h) + 1]

\* the third argument of start: left out, a boolean, or the context object
NoArg == [kind |-> "undefined", value |-> Undefined, ref |-> 0]
BooleanArg(value) == [kind |-> "boolean", value |-> value, ref |-> 0]
ObjectArg(ref) == [kind |-> "object", value |-> Undefined, ref |-> ref]

isObject(arg) == arg.kind = "object"

\* start, from initContext on: dragging.init(event, referencePoint, 'shape.move', ...)
StartDrag(event, element, activate, queries, initialised) ==
  [contexts |-> initialised.contexts,
   queries |-> queries,
   init |-> <<[event |-> event, referencePoint |-> mid(element), prefix |-> "shape.move",
               cursor |-> "grabbing", autoActivate |-> activate,
               shape |-> element, context |-> initialised.ret]>>,
   ret |-> "true"]

\* start, from canMove on
StartAllowed(h, event, element, activate, context, shapes, canExecute) ==
  IF Falsy(canExecute.ret)
  THEN [contexts |-> h, queries |-> <<canExecute.query>>, init |-> << >>, ret |-> Undefined]
  ELSE StartDrag(event, element, activate, <<canExecute.query>>,
                 initContext(h, context, canExecute.ret, shapes, element))

\* function start(event, element, activate, context); answer is what rules.allowed says
start(h, selected, event, element, activate, context, answer) ==
  StartAllowed(h, event, element,
               IF isObject(activate) THEN "false" ELSE activate.value,
               IF isObject(activate) THEN activate.ref ELSE context,
               MoveEvents_getValidatedShapes(selected, element).ret,
               MoveEvents_canMove(answer, MoveEvents_getValidatedShapes(selected, element).ret,
                                  Undefined, Undefined, Undefined))

\* the 'shape.move.move' listener that leaves the target alone when the move is ignored
onMove_keepsTarget(h, event, answer) ==
  [contexts |->
     [h EXCEPT ![event.context] =
        Assign(@, IF answer = Null
                  THEN [delta |-> [x |-> event.dx, y |-> event.dy], canExecute |-> answer]
                  ELSE [delta |-> [x |-> event.dx, y |-> event.dy], canExecute |-> answer,
                        target |-> event.hover])],
   queries |-> <<MoveEvents_canMove(answer, h[event.context].validatedShapes,
                                    [x |-> event.dx, y |-> event.dy],
                                    [x |-> event.x, y |-> event.y], event.hover).query>>,
   ret |-> Undefined]

\* eventBus.on('shape.move.move', LOW_PRIORITY, function(event) { ... })
onMove(h, event, answer) ==
  [contexts |->
     [h EXCEPT ![event.context] =
        Assign(@, [delta |-> [x |-> event.dx, y |-> event.dy],
                   canExecute |-> answer,
                   target |-> IF answer = Null THEN Null ELSE event.hover])],
   queries |-> <<MoveEvents_canMove(answer, h[event.context].validatedShapes,
                                    [x |-> event.dx, y |-> event.dy],
                                    [x |-> event.x, y |-> event.y], event.hover).query>>,
   ret |-> Undefined]

\* the end of the 'shape.move.end' listener, from the test for no movement on
EndMove(h, context, delta) ==
  IF delta.x = 0 /\ delta.y = 0
  THEN [contexts |-> [h EXCEPT ![context] = Assign(@, [delta |-> delta])],
        threw |-> FALSE, ret |-> Undefined, moveElements |-> << >>]
  ELSE [contexts |-> [h EXCEPT ![context] = Assign(@, [delta |-> delta])],
        threw |-> FALSE, ret |-> Undefined,
        moveElements |-> <<[shapes |-> h[context].shapes,
                            delta |-> delta,
                            target |-> h[context].target,
                            primaryShape |-> h[context].shape,
                            attach |-> (h[context].canExecute = "attach")]>>]

\* the 'shape.move.end' listener without the rounding of the delta
onEnd_notRounded(h, event) ==
  IF h[event.context].canExecute = "false"
  THEN [contexts |-> h, threw |-> FALSE, ret |-> "false", moveElements |-> << >>]
  ELSE IF ~HasOwn(h[event.context], "delta")
  THEN [contexts |-> h, threw |-> TRUE, ret |-> Undefined, moveElements |-> << >>]
  ELSE EndMove(h, event.context, h[event.context].delta)

\* eventBus.on('shape.move.end', function(event) { ... }); delta.x of a context that
\* has no delta is a TypeError
onEnd(h, event) ==
  IF h[event.context].canExecute = "false"
  THEN [contexts |-> h, threw |-> FALSE, ret |-> "false", moveElements |-> << >>]
  ELSE IF ~HasOwn(h[event.context], "delta")
  THEN [contexts |-> h, threw |-> TRUE, ret |-> Undefined, moveElements |-> << >>]
  ELSE EndMove(h, event.context, [x |-> round(h[event.context].delta.x),
                                  y |-> round(h[event.context].delta.y)])

\* eventBus.on('element.mousedown', function(event) { ... })
onMouseDown(h, selected, event, answer) ==
  IF event.originalEvent = Undefined
  THEN [contexts |-> h, queries |-> << >>, init |-> << >>, threw |-> TRUE, ret |-> Undefined]
  ELSE [contexts |-> start(h, selected, event.originalEvent, event.element, NoArg, 0, answer).contexts,
        queries |-> start(h, selected, event.originalEvent, event.element, NoArg, 0, answer).queries,
        init |-> start(h, selected, event.originalEvent, event.element, NoArg, 0, answer).init,
        threw |-> FALSE,
        ret |-> start(h, selected, event.originalEvent, event.element, NoArg, 0, answer).ret]

\* ------------------------------------------------ the users of MoveEvents

RECURSIVE SelectionsOfLen(_)
SelectionsOfLen(n) ==
  IF n = 0 THEN {<< >>}
  ELSE UNION {{Append(s, e) : e \in Elements \ {s[i] : i \in 1..Len(s)}} :
              s \in SelectionsOfLen(n - 1)}

\* the selections: up to MaxSelected elements, none twice
Selections == UNION {SelectionsOfLen(n) : n \in 0..MaxSelected}

\* what rules.allowed can answer
Answers == {"true", "false", Null, "attach"}

\* what the pointer can be over
Hovers == {"d", Null}

\* the movements of the pointer since the drag began, in half pixels: none, half a
\* pixel to the right, half a pixel to the left, one and a half pixels right and up
Deltas == {<<0, 0>>, <<1, 0>>, <<-1, 0>>, <<3, -3>>}

\* the object a caller of start brings along as the context
CallerContext == [custom |-> "kept"]

\* the ways start is called: start(event, element), start(event, element, context),
\* start(event, element, true, context)
StartForms == {"element", "context", "activateAndContext"}

DockingAtRest ==
  /\ heap = EmptyHeap
  /\ connection = [waypoints |-> 0, source |-> Undefined, target |-> Undefined]
  /\ shapePaths = [s \in Shapes |-> NoPath]
  /\ cropping = CroppingConnectionDocking(Undefined, Undefined)
  /\ call = NoCall
  /\ crops = 0
  /\ anchors = [first |-> 0, last |-> 0]

\* MoveEvents constructed, some elements selected, nothing dragged
InitMove ==
  /\ selection \in Selections
  /\ contexts = << >>
  /\ drag = NoDrag
  /\ handled = NoHandled
  /\ DockingAtRest
  /\ BootAtRest

Idle == ~drag.active /\ handled = NoHandled

\* what a start leaves behind: the drag that dragging.init began, if it was called
DragOf(init) ==
  IF init = << >> THEN NoDrag
  ELSE [active |-> TRUE, context |-> init[1].context, shape |-> init[1].shape, moves |-> 0]

\* moveEvents.start(event, element [, activate] [, context])
StartCall(element, form, answer) ==
  LET before == IF form = "element" THEN << >> ELSE <<CallerContext>>
      activate == IF form = "element" THEN NoArg
                  ELSE IF form = "context" THEN ObjectArg(1) ELSE BooleanArg("true")
      context == IF form = "activateAndContext" THEN 1 ELSE 0
      out == start(before, selection, "mousedown", element, activate, context, answer)
  IN /\ Idle
     /\ contexts' = out.contexts
     /\ drag' = DragOf(out.init)
     /\ handled' = [op |-> "start", element |-> element, form |-> form, answer |-> answer,
                    before |-> before, selected |-> selection,
                    queries |-> out.queries, init |-> out.init,
                    threw |-> FALSE, ret |-> out.ret]
     /\ UNCHANGED <<selection, dockingVars, boot>>

\* eventBus.fire('element.mousedown', { element, originalEvent })
MouseDown(element, originalEvent, answer) ==
  LET out == onMouseDown(<< >>, selection,
                         [element |-> element, originalEvent |-> originalEvent], answer)
  IN /\ Idle
     /\ contexts' = out.contexts
     /\ drag' = DragOf(out.init)
     /\ handled' = [op |-> "element.mousedown", element |-> element,
                    originalEvent |-> originalEvent, answer |-> answer,
                    before |-> << >>, selected |-> selection,
                    queries |-> out.queries, init |-> out.init,
                    threw |-> out.threw, ret |-> out.ret]
     /\ UNCHANGED <<selection, dockingVars, boot>>

\* dragging fires 'shape.move.move' with the context it was given in init
MoveMove(delta, hover, answer) ==
  LET event == [context |-> drag.context, dx |-> delta[1], dy |-> delta[2],
                x |-> boxOf(drag.shape).x + delta[1], y |-> boxOf(drag.shape).y + delta[2],
                hover |-> hover]
      out == onMove(contexts, event, answer)
  IN /\ drag.active
     /\ contexts' = out.contexts
     /\ drag' = [drag EXCEPT !.moves = IF @ < MaxMoves THEN @ + 1 ELSE @]
     /\ handled' = [op |-> "shape.move.move", event |-> event, answer |-> answer,
                    queries |-> out.queries, threw |-> FALSE, ret |-> out.ret]
     /\ UNCHANGED <<selection, dockingVars, boot>>

\* dragging fires 'shape.move.end' and the drag is over
MoveEnd ==
  LET out == onEnd(contexts, [context |-> drag.context])
  IN /\ drag.active
     /\ contexts' = out.contexts
     /\ drag' = NoDrag
     /\ handled' = [op |-> "shape.move.end", context |-> drag.context, moves |-> drag.moves,
                    last |-> handled, before |-> contexts,
                    moveElements |-> out.moveElements, threw |-> out.threw, ret |-> out.ret]
     /\ UNCHANGED <<selection, dockingVars, boot>>

\* moveEvents.getValidatedShapes(shape)
GetValidatedShapes(shape) ==
  LET out == MoveEvents_getValidatedShapes(selection, shape)
  IN /\ Idle
     /\ selection' = out.selection
     /\ handled' = [op |-> "getValidatedShapes", element |-> shape, selected |-> selection,
                    threw |-> FALSE, ret |-> out.ret]
     /\ UNCHANGED <<contexts, drag, dockingVars, boot>>

\* the handler's result is taken; the contexts of a finished drag are dropped
Handled ==
  /\ ~drag.active /\ handled # NoHandled
  /\ handled' = NoHandled
  /\ contexts' = << >>
  /\ UNCHANGED <<selection, drag, dockingVars, boot>>

NextMove ==
  \/ \E element \in Elements, form \in StartForms, answer \in Answers :
       StartCall(element, form, answer)
  \/ \E element \in Elements, originalEvent \in {"mousedown", Undefined}, answer \in Answers :
       MouseDown(element, originalEvent, answer)
  \/ \E delta \in Deltas, hover \in Hovers, answer \in Answers : MoveMove(delta, hover, answer)
  \/ MoveEnd
  \/ \E shape \in Elements : GetValidatedShapes(shape)
  \/ Handled

SpecMove == InitMove /\ [][NextMove]_vars

\* ------------------------------------------------------------- bootstrap

MaxBoot == 2   \* longest list of bootstrap modules

\* the modules, and the components each names in its __init__
Modules == {"m1", "m2", "m3"}

InitOf(m) ==
  CASE m = "m1" -> <<"c1a", "c1b">>
    [] m = "m2" -> <<"c2">>
    [] OTHER -> <<"c3">>

Components == UNION {{InitOf(m)[i] : i \in 1..Len(InitOf(m))} : m \in Modules}

\* the lists of distinct elements of a set
ListsOf(S) ==
  {s \in UNION {[1..n -> S] : n \in 0..Cardinality(S)} :
     \A i, j \in 1..Len(s) : (i # j) => s[i] # s[j]}

\* everything reached from the modules of S along __depends__
RECURSIVE DependsClosure(_, _)
DependsClosure(depends, S) ==
  IF UNION {{depends[m][i] : i \in 1..Len(depends[m])} : m \in S} \subseteq S THEN S
  ELSE DependsClosure(depends,
                      S \cup UNION {{depends[m][i] : i \in 1..Len(depends[m])} : m \in S})

\* no module depends on itself, directly or through others
Acyclic(depends) ==
  \A m \in Modules :
     m \notin DependsClosure(depends, {depends[m][i] : i \in 1..Len(depends[m])})

\* the acyclic __depends__ of the modules
DependsGraphs ==
  {depends \in [Modules -> ListsOf(Modules)] : Acyclic(depends)}

\* the lists of bootstrap modules: up to MaxBoot modules, the same module any number of times
BootstrapLists == UNION {[1..n -> Modules] : n \in 0..MaxBoot}

\* hasModule that never finds the module
hasModule_never(modules, m) == FALSE

\* modules.indexOf(m) >= 0
hasModule(modules, m) == \E i \in 1..Len(modules) : modules[i] = m

\* modules.push(m)
addModule(modules, m) == Append(modules, m)

\* visit(m) is entered: nothing to do for a module already there, else its frame is
\* put on the call stack, none of its dependencies visited yet
visit(b, m) ==
  IF hasModule(b.modules, m) THEN b
  ELSE [b EXCEPT !.stack = Append(@, [m |-> m, visited |-> 0])]

\* the frame of the visit that is running
Top(b) == b.stack[Len(b.stack)]

\* the call stack with the visit that is running returned
Pop(b) == SubSeq(b.stack, 1, Len(b.stack) - 1)

\* bootstrap(bootstrapModules) is called: var modules = [], components = []
InitBoot ==
  /\ \E bootstrapModules \in BootstrapLists, depends \in DependsGraphs,
        throwing \in {{}} \cup {{c} : c \in Components} :
       boot = [phase |-> "visiting",
               bootstrapModules |-> bootstrapModules,
               depends |-> depends,
               throwing |-> throwing,
               modules |-> << >>,
               components |-> << >>,
               stack |-> << >>,
               next |-> 1,
               instantiated |-> << >>,
               returned |-> FALSE]
  /\ DockingAtRest
  /\ MoveAtRest

\* bootstrapModules.forEach(visit): the next module of the list
VisitListed ==
  /\ boot.phase = "visiting" /\ boot.stack = << >>
  /\ boot.next <= Len(boot.bootstrapModules)
  /\ boot' = [visit(boot, boot.bootstrapModules[boot.next]) EXCEPT !.next = boot.next + 1]
  /\ UNCHANGED <<dockingVars, moveVars>>

\* (m.__depends__ || []).forEach(visit): the next dependency of the module visited
VisitDepends ==
  /\ boot.phase = "visiting" /\ boot.stack # << >>
  /\ Top(boot).visited < Len(boot.depends[Top(boot).m])
  /\ boot' = visit([boot EXCEPT !.stack[Len(boot.stack)].visited = @ + 1],
                   boot.depends[Top(boot).m][Top(boot).visited + 1])
  /\ UNCHANGED <<dockingVars, moveVars>>

\* the rest of visit(m), the dependencies done: if (hasModule(m)) return; addModule(m);
\* (m.__init__ || []).forEach(c => components.push(c))
VisitAdd ==
  /\ boot.phase = "visiting" /\ boot.stack # << >>
  /\ Top(boot).visited = Len(boot.depends[Top(boot).m])
  /\ boot' = IF hasModule(boot.modules, Top(boot).m)
             THEN [boot EXCEPT !.stack = Pop(boot)]
             ELSE [boot EXCEPT !.stack = Pop(boot),
                               !.modules = addModule(@, Top(boot).m),
                               !.components = @ \o InitOf(Top(boot).m)]
  /\ UNCHANGED <<dockingVars, moveVars>>

\* var injector = new Injector(modules)
NewInjector ==
  /\ boot.phase = "visiting" /\ boot.stack = << >>
  /\ boot.next > Len(boot.bootstrapModules)
  /\ boot' = [boot EXCEPT !.phase = "instantiating"]
  /\ UNCHANGED <<dockingVars, moveVars>>

\* components.forEach: injector.get(c) or injector.invoke(c); what it throws is thrown on
Instantiate ==
  /\ boot.phase = "instantiating"
  /\ Len(boot.instantiated) < Len(boot.components)
  /\ boot' = IF boot.components[Len(boot.instantiated) + 1] \in boot.throwing
             THEN [boot EXCEPT !.phase = "threw"]
             ELSE [boot EXCEPT !.instantiated =
                                  Append(@, boot.components[Len(boot.instantiated) + 1])]
  /\ UNCHANGED <<dockingVars, moveVars>>

\* return injector
ReturnInjector ==
  /\ boot.phase = "instantiating"
  /\ Len(boot.instantiated) = Len(boot.components)
  /\ boot' = [boot EXCEPT !.phase = "done", !.returned = TRUE]
  /\ UNCHANGED <<dockingVars, moveVars>>

NextBoot ==
  \/ VisitListed
  \/ VisitDepends
  \/ VisitAdd
  \/ NewInjector
  \/ Instantiate
  \/ ReturnInjector

\* bootstrap is synchronous code: it runs on as long as it has a step to take
SpecBoot == InitBoot /\ [][NextBoot]_vars /\ WF_vars(NextBoot)

\* ------------------------------------------------------- properties

XY(p) == [x |-> p.x, y |-> p.y]

IsCrop == call.op = "getCroppedWaypoints" /\ call.impl = "cropping"
IsDock == call.op = "getDockingPoint" /\ call.impl = "cropping"

\* the waypoint array a call was given, and its elements before the call
CallWaypoints ==
  IF call.op = "getDockingPoint" THEN call.waypoints
  ELSE IF call.arg.type = "connection" THEN connection.waypoints ELSE call.arg.ref
Input == call.pre.arrs[CallWaypoints]
N == Len(Input)
InputPoint(i) == call.pre.pts[Input[i]]

\* the source and target shape a getCroppedWaypoints call is about
CallSource == IF call.source # Undefined THEN call.source ELSE connection.source
CallTarget == IF call.target # Undefined THEN call.target ELSE connection.target

\* the sequence a getCroppedWaypoints call returned, and its points
Result == call.post.arrs[call.ret]
ResultPoint(i) == call.post.pts[Result[i]]

\* what getDockingPoint answers for the input of the call
DockingOf(shape, dockStart) ==
  CroppingConnectionDocking_getDockingPoint(cropping, call.pre, CallWaypoints, shape, dockStart)
ActualOf(shape, dockStart) ==
  XY(DockingOf(shape, dockStart).heap.pts[DockingOf(shape, dockStart).ret.actual])

\* the crossings of the call's connection path with the outline of a shape
CrossingsOf(shape) ==
  Crossings(getShapePath(shape), getConnectionPath(call.pre, CallWaypoints))

\* C1: for at least two waypoints, the first point getCroppedWaypoints returns has the
\* coordinates of getDockingPoint(waypoints, source, true).actual and the last point
\* those of getDockingPoint(waypoints, target, false).actual.
C1_EndsAreDockingActuals ==
  (IsCrop /\ N >= 2) =>
     /\ ~call.threw
     /\ XY(ResultPoint(1)) = ActualOf(CallSource, "true")
     /\ XY(ResultPoint(Len(Result))) = ActualOf(CallTarget, "false")

\* a crop of two or more waypoints that moved both ends onto an outline
C1_Witness ==
  /\ IsCrop /\ N >= 2 /\ ~call.threw
  /\ XY(ResultPoint(1)) # XY(InputPoint(1))
  /\ XY(ResultPoint(Len(Result))) # XY(InputPoint(N))

\* C2: for N >= 3 waypoints the points of the result strictly between its first and last
\* point are waypoints[1..N-2] of the input, the same objects, unchanged and in the same
\* order; for N = 2 the result is exactly [sourceActual, targetActual], with no interior.
C2_InteriorPreserved ==
  (IsCrop /\ N >= 2) =>
     /\ ~call.threw
     /\ Len(Result) = N
     /\ \A i \in 2..(N - 1) : Result[i] = Input[i] /\ ResultPoint(i) = InputPoint(i)
     /\ N = 2 => <<XY(ResultPoint(1)), XY(ResultPoint(2))>> =
                   <<ActualOf(CallSource, "true"), ActualOf(CallTarget, Undefined)>>

\* a crop of four waypoints: two interior points between two ends that both moved
C2_Witness ==
  /\ IsCrop /\ N = 4 /\ ~call.threw
  /\ Len(Result) = 4
  /\ XY(ResultPoint(1)) # XY(InputPoint(1))
  /\ XY(ResultPoint(4)) # XY(InputPoint(4))

\* C3: whenever the intersection primitive yields no point for an end (no outline, or
\* the connection path does not cross it), getDockingPoint returns as actual the raw
\* waypoint waypoints[idx] itself, the corresponding end of getCroppedWaypoints has
\* exactly the coordinates of that raw waypoint, and no error is raised (for a waypoint
\* sequence that is not empty).
C3_FallbackToRawWaypoint ==
  /\ (IsDock /\ CrossingsOf(call.shape) = {}) =>
        /\ ~call.threw
        /\ call.docking.actual = At(Input, call.docking.idx)
        /\ call.post = call.pre
  /\ (IsCrop /\ N >= 1 /\ CrossingsOf(CallSource) = {}) =>
        /\ ~call.threw
        /\ XY(ResultPoint(1)) = XY(InputPoint(1))
  /\ (IsCrop /\ N >= 1 /\ CrossingsOf(CallTarget) = {}) =>
        /\ ~call.threw
        /\ XY(ResultPoint(Len(Result))) = XY(InputPoint(N))

\* a crop whose source has no outline, while its target has one the path crosses
C3_Witness ==
  /\ IsCrop /\ N >= 2 /\ ~call.threw
  /\ getShapePath(CallSource) = NoPath
  /\ CrossingsOf(CallTarget) # {}
  /\ XY(ResultPoint(1)) = XY(InputPoint(1))
  /\ XY(ResultPoint(Len(Result))) # XY(InputPoint(N))

\* a docking of the target end whose outline is there but is not crossed by the path
C3_WitnessNoCrossing ==
  /\ IsDock /\ N >= 2 /\ ~Truthy(call.dockStart)
  /\ getShapePath(call.shape) # NoPath
  /\ CrossingsOf(call.shape) = {}
  /\ call.docking.actual = Input[N]

\* C4: after any number of successive croppings, each taking the previous result as its
\* waypoints while shapes may change in between, the original of the first and of the
\* last point is the one the first crop established: the end point of the very first
\* input (or its original).
C4_OriginalPreserved ==
  /\ (IsCrop /\ ~call.threw) =>
        /\ OriginalOf(ResultPoint(1)) = anchors.first
        /\ OriginalOf(ResultPoint(Len(Result))) = anchors.last
  /\ (crops >= 1) =>
        /\ OriginalOf(heap.pts[heap.arrs[connection.waypoints][1]]) = anchors.first
        /\ OriginalOf(heap.pts[heap.arrs[connection.waypoints][Len(heap.arrs[connection.waypoints])]])
             = anchors.last

\* a second crop, of a connection already cropped, that moves the first point again
\* because the outline of the source appeared in between
C4_Witness ==
  /\ crops >= 1 /\ IsCrop /\ N >= 2 /\ ~call.threw
  /\ OriginalOf(InputPoint(1)) = anchors.first
  /\ XY(InputPoint(1)) = XY(call.pre.pts[anchors.first])
  /\ XY(ResultPoint(1)) # XY(InputPoint(1))
  /\ OriginalOf(ResultPoint(1)) = anchors.first

\* C5: when the path crosses an outline more than once, the source end is the crossing
\* nearest the start of the path and the target end the crossing nearest its end; for
\* a self-loop with two distinct crossings the two ends are the first and the last
\* crossing respectively.
C5_FirstAndLastCrossing ==
  (IsCrop /\ N >= 2) =>
     /\ CrossingsOf(CallSource) # {} =>
          \E c \in CrossingsOf(CallSource) :
             /\ Coord(c) = XY(ResultPoint(1))
             /\ \A c2 \in CrossingsOf(CallSource) : Before(c, c2)
     /\ CrossingsOf(CallTarget) # {} =>
          \E c \in CrossingsOf(CallTarget) :
             /\ Coord(c) = XY(ResultPoint(Len(Result)))
             /\ \A c2 \in CrossingsOf(CallTarget) : Before(c2, c)

\* a self-loop whose path crosses the outline at two distinct points, which are the
\* two ends of the result
C5_Witness ==
  /\ IsCrop /\ N >= 2 /\ ~call.threw
  /\ CallSource = CallTarget
  /\ Cardinality({Coord(c) : c \in CrossingsOf(CallSource)}) >= 2
  /\ XY(ResultPoint(1)) # XY(ResultPoint(Len(Result)))

\* C6: getCroppedWaypoints called with invalid input, fewer than two waypoints or no
\* source or target shape given or resolvable from the connector, signals an error to
\* the caller and returns no cropped waypoint sequence.
C6_InvalidInputSignalsError ==
  (IsCrop /\ (N < 2 \/ CallSource = Undefined \/ CallTarget = Undefined)) =>
     call.threw /\ call.ret = 0

\* C7: neither getDockingPoint nor getCroppedWaypoints of the cropping docking changes
\* its inputs: after the call the input waypoint array has the same elements in the
\* same order, every point object that existed before has the same properties, and
\* the fields of the docking itself are what the constructor set.
C7_InputsNotMutated ==
  (IsCrop \/ IsDock) =>
     /\ heap = call.pre
     /\ Kept(call.post, call.pre) = call.pre
     /\ call.post.arrs[CallWaypoints] = Input
     /\ \A i \in 1..N : call.post.pts[Input[i]] = InputPoint(i)
     /\ cropping = CroppingConnectionDocking("elementRegistry", "graphicsFactory")

\* a crop of three or more waypoints that fell back to the raw waypoint at its first
\* end, so that the docking's actual point is the input waypoint object itself
C7_Witness ==
  /\ IsCrop /\ N >= 3 /\ ~call.threw
  /\ CrossingsOf(CallSource) = {}
  /\ DockingOf(CallSource, "true").ret.actual = Input[1]
  /\ Result[1] # Input[1]

\* C8: for a connector of at least two waypoints the sequence getCroppedWaypoints
\* returns has at least two points.
C8_AtLeastTwoPoints ==
  (IsCrop /\ N >= 2) => (~call.threw /\ call.ret # 0 /\ Len(Result) >= 2)

\* a crop of exactly two waypoints, returning exactly two points
C8_Witness == IsCrop /\ N = 2 /\ ~call.threw /\ Len(Result) = 2

\* C9: in both docking implementations getDockingPoint returns idx = 0 and point =
\* waypoints[0] when dockStart is true, and idx = length - 1 and point =
\* waypoints[length - 1] when dockStart is false or omitted, whatever the shape and
\* whether or not an intersection was found.
C9_DockingIndex ==
  (call.op = "getDockingPoint") =>
     /\ call.dockStart = "true" =>
          call.docking.idx = 0 /\ call.docking.point = At(Input, 0)
     /\ call.dockStart \in {"false", Undefined} =>
          call.docking.idx = N - 1 /\ call.docking.point = At(Input, N - 1)

\* a docking of the target end by the cropping docking, dockStart omitted, that found
\* an intersection
C9_Witness ==
  /\ IsDock /\ N >= 3 /\ call.dockStart = Undefined
  /\ call.docking.idx = N - 1
  /\ call.docking.actual # call.docking.point

\* C10: the identity docking never consults shape geometry: getDockingPoint returns
\* { point: waypoints[idx], actual: waypoints[idx], idx } for every shape, and
\* getCroppedWaypoints returns the waypoint sequence itself, unchanged: the connector's
\* waypoints when given a connector, the argument when given a bare sequence.
C10_IdentityDocking ==
  (call.impl = "identity") =>
     /\ ~call.threw
     /\ call.post = call.pre
     /\ call.op = "getDockingPoint" =>
          /\ call.docking.idx = (IF Truthy(call.dockStart) THEN 0 ELSE N - 1)
          /\ call.docking.point = At(Input, call.docking.idx)
          /\ call.docking.actual = At(Input, call.docking.idx)
     /\ call.op = "getCroppedWaypoints" =>
          call.ret = (IF call.arg.type = "connection" THEN connection.waypoints
                                                      ELSE call.arg.ref)

\* the identity docking asked to crop a connector whose ends the cropping docking
\* would move
C10_Witness ==
  /\ call.impl = "identity" /\ call.op = "getCroppedWaypoints"
  /\ call.arg.type = "connection" /\ N >= 2
  /\ call.ret = connection.waypoints
  /\ CrossingsOf(CallSource) # {} /\ CrossingsOf(CallTarget) # {}

\* the coordinates of the call's waypoints before the call, and of its result
InputPath == getConnectionPath(call.pre, CallWaypoints)
ResultPath == [i \in 1..Len(Result) |-> XY(ResultPoint(i))]

\* the end a path gets at an outline, from the coordinates and the outline alone
EndOf(path, shapePath, atStart) ==
  LET cs == Crossings(shapePath, path)
  IN IF cs = {} THEN (IF atStart THEN path[1] ELSE path[Len(path)])
     ELSE IF atStart THEN FirstCrossing(cs) ELSE LastCrossing(cs)

\* the coordinates the initial connection had
InitialPath == [i \in 1..Len(heap.arrs[1]) |-> XY(heap.pts[i])]

\* C11: the cropping docking is deterministic and keeps no state: what a call returns
\* is decided by the coordinates of its waypoints and the current outlines of its
\* shapes alone, whatever calls, write-backs and outline changes came before; so two
\* calls with the same waypoints and outlines return the same result.
C11_ResultDecidedByInputs ==
  /\ (IsCrop /\ N >= 1) =>
        /\ ~call.threw
        /\ ResultPath = <<EndOf(InputPath, getShapePath(CallSource), TRUE)>>
                          \o SubSeq(InputPath, 2, N - 1)
                          \o <<EndOf(InputPath, getShapePath(CallTarget), FALSE)>>
  /\ (IsDock /\ N >= 1) =>
        /\ ~call.threw
        /\ XY(call.post.pts[call.docking.actual]) =
             EndOf(InputPath, getShapePath(call.shape), Truthy(call.dockStart))
  /\ cropping = CroppingConnectionDocking("elementRegistry", "graphicsFactory")

\* a crop after an earlier crop was written back: the waypoints are other objects with
\* the coordinates the connection had to begin with, and this time the first end moves
C11_Witness ==
  /\ crops >= 1 /\ IsCrop /\ N >= 2 /\ ~call.threw
  /\ CallWaypoints # 1
  /\ InputPath = InitialPath
  /\ ResultPath[1] # InputPath[1]

\* C12: with the source outline the rectangle [0,100] x [0,100], the target outline the
\* rectangle [200,300] x [0,100] and the waypoints [(50,50), (250,50)],
\* getCroppedWaypoints returns exactly [(100,50), (200,50)], with no interior points.
C12_WorkedExample ==
  (/\ IsCrop
   /\ InputPath = <<[x |-> 50, y |-> 50], [x |-> 250, y |-> 50]>>
   /\ getShapePath(CallSource) = RectA
   /\ getShapePath(CallTarget) = RectB) =>
     /\ ~call.threw
     /\ ResultPath = <<[x |-> 100, y |-> 50], [x |-> 200, y |-> 50]>>

\* the worked example, called with the connection alone
C12_Witness ==
  /\ IsCrop /\ call.arg.type = "connection"
  /\ call.source = Undefined /\ call.target = Undefined
  /\ InputPath = <<[x |-> 50, y |-> 50], [x |-> 250, y |-> 50]>>
  /\ shapePaths = [s \in Shapes |-> IF s = "s1" THEN RectA ELSE RectB]
  /\ ResultPath = <<[x |-> 100, y |-> 50], [x |-> 200, y |-> 50]>>

\* C13: a cropping docking whose graphicsFactory is absent fails when it is constructed:
\* there is no constructed docking without a graphicsFactory that goes on to answer, or
\* to fail, a later docking call.
C13_AbsentFactoryFailsAtConstruction ==
  (cropping.graphicsFactory = Undefined) => ~(IsCrop \/ IsDock)

\* the same call with everything passed explicitly: the waypoint array itself, and the
\* source and target the call is about
ExplicitCall ==
  CroppingConnectionDocking_getCroppedWaypoints(
    cropping, call.pre, ArrayArg(CallWaypoints), CallSource, CallTarget)

\* C14: getCroppedWaypoints called with a connection gives what it gives when called with
\* that connection's waypoints and with source and target passed explicitly, where an
\* omitted source or target is the connection's and a passed one takes precedence
\* over the connection's; called with a bare array, the waypoints are the array itself.
C14_ConnectionAloneIsExplicit ==
  IsCrop =>
     /\ [heap |-> call.post, threw |-> call.threw, ret |-> call.ret] = ExplicitCall
     /\ CallWaypoints = (IF call.arg.type = "connection" THEN call.arg.waypoints
                                                          ELSE call.arg.ref)

\* a crop called with the connection alone, whose ends both moved onto the outlines of
\* the connection's source and target
C14_Witness ==
  /\ IsCrop /\ call.arg.type = "connection" /\ N >= 2 /\ ~call.threw
  /\ call.source = Undefined /\ call.target = Undefined
  /\ ResultPath[1] = EndOf(InputPath, getShapePath(connection.source), TRUE)
  /\ ResultPath[1] # InputPath[1]
  /\ ResultPath[Len(Result)] # InputPath[N]

\* a crop called with the connection and with the two shapes passed the other way
\* round: the first end is on the outline of the shape passed, not of connection.source
C14_WitnessPrecedence ==
  /\ IsCrop /\ call.arg.type = "connection" /\ N >= 2 /\ ~call.threw
  /\ call.source = "s2" /\ connection.source = "s1"
  /\ ResultPath[1] = EndOf(InputPath, getShapePath("s2"), TRUE)
  /\ ResultPath[1] # EndOf(InputPath, getShapePath("s1"), TRUE)

\* C20: for N >= 2 waypoints getCroppedWaypoints of the cropping docking returns a
\* sequence created by the call, of exactly N points, whose first and last points are
\* objects created by the call; and when the caller later modifies that sequence, the
\* input sequence and its points stay as they were.
C20_ResultIsFresh ==
  /\ (IsCrop /\ N >= 2) =>
        /\ ~call.threw
        /\ call.ret > Len(call.pre.arrs)
        /\ Len(Result) = N
        /\ Result[1] > Len(call.pre.pts)
        /\ Result[N] > Len(call.pre.pts)
  /\ (call.op = "resultModified") =>
        /\ heap = call.pre
        /\ Kept(call.post, call.pre) = call.pre

\* the caller modified the result of a crop of three waypoints whose ends both fell
\* back to the raw waypoints: the result has one point less, the input has its three
C20_Witness ==
  /\ call.op = "resultModified" /\ N = 3
  /\ Len(Result) = 2
  /\ CrossingsOf(CallSource) = {} /\ CrossingsOf(CallTarget) = {}
  /\ Len(heap.arrs[CallWaypoints]) = 3
  /\ XY(heap.pts[heap.arrs[CallWaypoints][1]]) # [x |-> 0, y |-> 0]

\* the context of the drag before the shape.move.end listener ran
ContextBefore == handled.before[handled.context]

\* a whole number of pixels next to n: n itself, or the half pixel above it
IsRounded(r, n) == r % 2 = 0 /\ r - n \in {0, 1}

\* C15: on shape.move.end, modeling.moveElements is invoked at most once, and only if
\* context.canExecute is not false and the delta rounded to whole pixels is not (0, 0);
\* when canExecute is false the handler returns false, and when the rounded delta is
\* (0, 0) nothing is moved. When invoked, it receives the rounded delta, context.shapes,
\* context.target, primaryShape = context.shape, and attach = true exactly when
\* canExecute is 'attach'.
C15_MoveElementsOnEnd ==
  (handled.op = "shape.move.end") =>
     /\ Len(handled.moveElements) <= 1
     /\ (ContextBefore.canExecute = "false") =>
          handled.ret = "false" /\ handled.moveElements = << >>
     /\ (/\ HasOwn(ContextBefore, "delta")
         /\ round(ContextBefore.delta.x) = 0
         /\ round(ContextBefore.delta.y) = 0) => handled.moveElements = << >>
     /\ (handled.moveElements # << >>) =>
          /\ ContextBefore.canExecute # "false"
          /\ IsRounded(handled.moveElements[1].delta.x, ContextBefore.delta.x)
          /\ IsRounded(handled.moveElements[1].delta.y, ContextBefore.delta.y)
          /\ handled.moveElements[1].delta # [x |-> 0, y |-> 0]
          /\ handled.moveElements[1].shapes = ContextBefore.shapes
          /\ handled.moveElements[1].target = ContextBefore.target
          /\ handled.moveElements[1].primaryShape = ContextBefore.shape
          /\ handled.moveElements[1].attach = (ContextBefore.canExecute = "attach")

\* a drag ended one and a half pixels right and up with canExecute 'attach': the
\* elements are moved by (2, -1) pixels and attached
C15_Witness ==
  /\ handled.op = "shape.move.end"
  /\ ContextBefore.canExecute = "attach"
  /\ HasOwn(ContextBefore, "delta")
  /\ ContextBefore.delta = [x |-> 3, y |-> -3]
  /\ Len(handled.moveElements) = 1
  /\ handled.moveElements[1].delta = [x |-> 4, y |-> -2]
  /\ handled.moveElements[1].attach

\* a drag ended half a pixel to the left, which rounds to no movement: nothing is moved
C15_WitnessNotMoved ==
  /\ handled.op = "shape.move.end"
  /\ ContextBefore.canExecute = "true"
  /\ HasOwn(ContextBefore, "delta")
  /\ ContextBefore.delta = [x |-> -1, y |-> 0]
  /\ handled.moveElements = << >>
  /\ handled.ret = Undefined /\ ~handled.threw

\* the context the last shape.move.move event was handled on
MovedContext == contexts[handled.event.context]

\* C16: after every shape.move.move event the move context holds the state of that
\* event only: context.delta is its (dx, dy), context.canExecute is what the rules
\* answered for (validatedShapes, delta, position, hover) of that event, and
\* context.target is null when that answer is null and the event's hover otherwise; so
\* the target and the delta handed to moveElements on shape.move.end are those of the
\* last move event.
C16_ContextHoldsLatestEvent ==
  /\ (handled.op = "shape.move.move") =>
        /\ HasOwn(MovedContext, "delta") /\ HasOwn(MovedContext, "target")
        /\ MovedContext.delta = [x |-> handled.event.dx, y |-> handled.event.dy]
        /\ MovedContext.canExecute = handled.answer
        /\ handled.queries = <<[shapes |-> MovedContext.validatedShapes,
                                delta |-> [x |-> handled.event.dx, y |-> handled.event.dy],
                                position |-> [x |-> handled.event.x, y |-> handled.event.y],
                                target |-> handled.event.hover]>>
        /\ MovedContext.target = (IF handled.answer = Null THEN Null ELSE handled.event.hover)
  /\ (handled.op = "shape.move.end" /\ handled.moveElements # << >>) =>
        /\ handled.last.op = "shape.move.move"
        /\ handled.moveElements[1].target =
             (IF handled.last.answer = Null THEN Null ELSE handled.last.event.hover)
        /\ IsRounded(handled.moveElements[1].delta.x, handled.last.event.dx)
        /\ IsRounded(handled.moveElements[1].delta.y, handled.last.event.dy)

\* a drag of two or more move events, the last of them over d and ignored by the rules,
\* ended: the elements are moved by the last delta, to no target
C16_Witness ==
  /\ handled.op = "shape.move.end" /\ handled.moves >= 2
  /\ handled.last.op = "shape.move.move"
  /\ handled.last.answer = Null /\ handled.last.event.hover = "d"
  /\ Len(handled.moveElements) = 1
  /\ handled.moveElements[1].target = Null
  /\ handled.moveElements[1].delta = [x |-> 2, y |-> 0]

\* start was called with a context object of the caller
ContextPassed == handled.op = "start" /\ handled.form # "element"

\* C17: if rules.allowed('elements.move') for the validated shapes is falsy, start never
\* calls dragging.init, leaves a passed context unmodified and returns undefined;
\* otherwise it initialises the context (canExecute, shapes, validatedShapes, shape) on
\* the same context object, calls dragging.init exactly once with the prefix
\* 'shape.move', and returns true. An element.mousedown without an original DOM event
\* throws before either happens.
C17_StartOnlyWhenAllowed ==
  /\ (handled.op = "element.mousedown" /\ handled.originalEvent = Undefined) =>
        /\ handled.threw
        /\ handled.queries = << >> /\ handled.init = << >>
        /\ contexts = handled.before /\ ~drag.active
  /\ (handled.op \in {"start", "element.mousedown"} /\ ~handled.threw) =>
        /\ handled.queries =
             <<[shapes |-> MoveEvents_getValidatedShapes(handled.selected, handled.element).ret,
                delta |-> Undefined, position |-> Undefined, target |-> Undefined]>>
        /\ Falsy(handled.answer) =>
             /\ handled.init = << >>
             /\ contexts = handled.before
             /\ handled.ret = Undefined
             /\ ~drag.active
        /\ ~Falsy(handled.answer) =>
             /\ Len(handled.init) = 1
             /\ handled.init[1].prefix = "shape.move"
             /\ handled.ret = "true"
             /\ drag.active /\ drag.context = handled.init[1].context
             /\ ContextPassed =>
                  /\ handled.init[1].context = 1
                  /\ contexts = <<Assign(handled.before[1], contexts[1])>>
             /\ contexts[handled.init[1].context].canExecute = handled.answer
             /\ contexts[handled.init[1].context].shapes = handled.queries[1].shapes
             /\ contexts[handled.init[1].context].validatedShapes = handled.queries[1].shapes
             /\ contexts[handled.init[1].context].shape = handled.element

\* start called with a context of the caller and allowed: the drag is begun on the
\* caller's object, which keeps what the caller put in it
C17_Witness ==
  /\ handled.op = "start" /\ handled.form = "context" /\ handled.answer = "true"
  /\ Len(handled.init) = 1 /\ handled.init[1].context = 1
  /\ HasOwn(contexts[1], "custom") /\ HasOwn(contexts[1], "canExecute")
  /\ handled.ret = "true"

\* start called with a context of the caller and not allowed
C17_WitnessNotAllowed ==
  /\ handled.op = "start" /\ handled.form = "context" /\ handled.answer = Null
  /\ handled.init = << >> /\ contexts = <<CallerContext>>
  /\ handled.ret = Undefined

\* the ancestors of an element: its parent, the parent of its parent, and so on
RECURSIVE AncestorsOf(_)
AncestorsOf(element) ==
  IF parentOf(element) = Undefined THEN {}
  ELSE {parentOf(element)} \cup AncestorsOf(parentOf(element))

ElementsOf(seq) == {seq[i] : i \in 1..Len(seq)}
IndexIn(seq, e) == CHOOSE i \in 1..Len(seq) : seq[i] = e

\* the collection getValidatedShapes starts from: the selection when the shape is part
\* of it, the shape alone when it is not
Candidates ==
  IF handled.element \in ElementsOf(handled.selected) THEN handled.selected
  ELSE <<handled.element>>

C18_WitnessOrderKept ==
  /\ handled.op = "getValidatedShapes"
  /\ handled.element = "d" /\ handled.selected = <<"d", "a">>
  /\ handled.ret = <<"d", "a">>

\* b is dragged while its parent a alone is selected: b alone is returned
C18_WitnessNotSelected ==
  /\ handled.op = "getValidatedShapes"
  /\ handled.element = "b" /\ handled.selected = <<"a">>
  /\ handled.ret = <<"b">>

\* the components of the modules added, in the order of the modules
RECURSIVE InitsOf(_)
InitsOf(modules) ==
  IF modules = << >> THEN << >> ELSE InitOf(Head(modules)) \o InitsOf(Tail(modules))

\* the modules are in, every one once and after the modules it depends on
ModulesInOrder ==
  /\ \A i, j \in 1..Len(boot.modules) : (i # j) => boot.modules[i] # boot.modules[j]
  /\ ElementsOf(boot.modules) =
       DependsClosure(boot.depends, ElementsOf(boot.bootstrapModules))
  /\ \A i \in 1..Len(boot.modules) :
       \A k \in 1..Len(boot.depends[boot.modules[i]]) :
          \E j \in 1..(i - 1) : boot.modules[j] = boot.depends[boot.modules[i]][k]
  /\ boot.components = InitsOf(boot.modules)

\* the components before the first one that throws are instantiated, in order, and
\* none after it
InstantiatedInOrder ==
  /\ Len(boot.instantiated) <= Len(boot.components)
  /\ boot.instantiated = SubSeq(boot.components, 1, Len(boot.instantiated))
  /\ ElementsOf(boot.instantiated) \cap boot.throwing = {}

BootOutcome ==
  /\ (boot.phase \in {"instantiating", "done", "threw"}) =>
        ModulesInOrder /\ InstantiatedInOrder
  /\ (boot.phase = "done") =>
        boot.returned /\ boot.instantiated = boot.components
  /\ (boot.phase = "threw") =>
        /\ ~boot.returned
        /\ boot.components[Len(boot.instantiated) + 1] \in boot.throwing

\* C19: for every list of bootstrap modules whose __depends__ graph is acyclic, bootstrap
\* terminates, with each reachable module added exactly once, every module after all
\* modules it depends on, and the __init__ components collected and instantiated in
\* that module order; the first component whose instantiation throws aborts bootstrap
\* by rethrowing: no injector is returned and no later component is instantiated.
C19_BootstrapTerminatesInOrder ==
  /\ []BootOutcome
  /\ <>(boot.phase \in {"done", "threw"})

\* m1, which depends on m2, was listed twice; m2 came first and once only, and the second
\* of the three components threw: one component is instantiated, no injector returned
C19_Witness ==
  /\ boot.phase = "threw"
  /\ boot.bootstrapModules = <<"m1", "m1">>
  /\ boot.depends["m1"] = <<"m2">>
  /\ boot.modules = <<"m2", "m1">>
  /\ boot.components = <<"c2", "c1a", "c1b">>
  /\ boot.instantiated = <<"c2">>
  /\ ~boot.returned

\* two listed modules that both depend on m3: m3 is in once, before both, and the
\* injector is returned with all components instantiated
C19_WitnessDone ==
  /\ boot.phase = "done" /\ boot.returned
  /\ boot.bootstrapModules = <<"m1", "m2">>
  /\ boot.depends["m1"] = <<"m3">> /\ boot.depends["m2"] = <<"m3">>
  /\ boot.modules = <<"m3", "m1", "m2">>
  /\ boot.instantiated = <<"c3", "c1a", "c1b", "c2">>

====
